---------------------------- MODULE Spec2Model ----------------------------
(***************************************************************************)
(* A model of the go-mplex stream multiplexer (multiplex.go): the varint   *)
(* and frame codec, the Stream read/write/close state machine, the         *)
(* Multiplex serializer (handleOutgoing), the dispatch loop (Serve), the   *)
(* identifier allocator and shutdown.  Goroutines are tasks with a program *)
(* counter; one action is one synchronisation step of one goroutine.       *)
(***************************************************************************)
EXTENDS Integers, Sequences, FiniteSets, TLC

(***************************************************************************)
(* Frame tags: the iota block of multiplex.go.                             *)
(***************************************************************************)
NewStream == 0
Receiver == 1
Initiator == 2
Unknown == 3
Close == 4

\* (mutant) an inbox channel with room for one payload more
InboxCapNine == 8 + 1

\* capacity of a stream's data_in channel: make(chan []byte, 8)
InboxCap == 8

\* uint64 arithmetic is modulo 2^64; the values the model reaches stay far
\* below TLC's integer range, so the modulus is applied where the code shifts.
Pow2(n) == 2 ^ n

(***************************************************************************)
(* EncodeVarint: base-128, least significant group first, high bit set on  *)
(* every byte but the last.                                                *)
(***************************************************************************)
RECURSIVE EncodeVarint(_)
EncodeVarint(x) ==
    IF x > 127 THEN <<128 + (x % 128)>> \o EncodeVarint(x \div 128)
               ELSE <<x>>

(***************************************************************************)
(* DecodeVarint on the bytes bs from position i (1-based), with `ended`    *)
(* telling whether the reader is at end of input after the last byte.      *)
(* Result: [st |-> "ok", x, n] | [st |-> "eof"] (ReadByte returned io.EOF) *)
(* | [st |-> "overflow"] | [st |-> "block"] (more bytes are awaited).      *)
(***************************************************************************)
RECURSIVE DecodeLoop(_, _, _, _, _, _)
DecodeLoop(bs, i, ended, shift, x, n) ==
    IF shift >= 64 THEN [st |-> "overflow", x |-> 0, n |-> 0]
    ELSE IF i > Len(bs)
         THEN [st |-> IF ended THEN "eof" ELSE "block", x |-> 0, n |-> 0]
         ELSE LET b  == bs[i]
                  x2 == x + (b % 128) * Pow2(shift)
              IN  IF b < 128 THEN [st |-> "ok", x |-> x2, n |-> n + 1]
                  ELSE DecodeLoop(bs, i + 1, ended, shift + 7, x2, n + 1)

DecodeVarint(bs, i, ended) == DecodeLoop(bs, i, ended, 0, 0, 0)

\* header = (id << 3) | tag
Header(id, tag) == id * 8 + tag

\* one frame on the wire, as handleOutgoing's three writes produce it
EncodeFrame(header, data) ==
    EncodeVarint(header) \o EncodeVarint(Len(data)) \o data

SubSeqFrom(s, i) == IF i > Len(s) THEN <<>> ELSE SubSeq(s, i, Len(s))

(***************************************************************************)
(* readNextHeader followed by readNext on the unread input `bs`.           *)
(* st = "frame": a whole frame (ch, tag, b), `used` bytes consumed.        *)
(* st = "block": the reader waits for more bytes.                          *)
(* st = "nil"  : Serve returns nil  (the error was io.EOF).                *)
(* st = "err"  : Serve returns a non-nil error.                            *)
(* io.ReadFull returns io.EOF when no byte was read and                    *)
(* io.ErrUnexpectedEOF after a partial read.                               *)
(***************************************************************************)
ReadFrame(bs, ended) ==
    LET none == [st |-> "block", ch |-> 0, tag |-> 0, b |-> <<>>, used |-> 0]
        h == DecodeVarint(bs, 1, ended)
    IN  IF h.st = "block" THEN none
        ELSE IF h.st = "eof" THEN [none EXCEPT !.st = "nil"]
        ELSE IF h.st = "overflow" THEN [none EXCEPT !.st = "err"]
        ELSE LET l == DecodeVarint(bs, h.n + 1, ended)
                 have == Len(bs) - (h.n + l.n)
             IN  IF l.st = "block" THEN none
                 ELSE IF l.st = "eof" THEN [none EXCEPT !.st = "nil"]
                 ELSE IF l.st = "overflow" THEN [none EXCEPT !.st = "err"]
                 ELSE IF have >= l.x
                      THEN [st |-> "frame", ch |-> h.x \div 8, tag |-> h.x % 8,
                            b |-> SubSeq(bs, h.n + l.n + 1, h.n + l.n + l.x),
                            used |-> h.n + l.n + l.x]
                      ELSE IF ~ended THEN none
                      ELSE IF have = 0 THEN [none EXCEPT !.st = "nil"]
                      ELSE [none EXCEPT !.st = "err"]

\* fmt.Sprint(sid): the decimal rendering, as bytes
RECURSIVE Sprint(_)
Sprint(n) == IF n < 10 THEN <<48 + n>> ELSE Sprint(n \div 10) \o <<48 + (n % 10)>>


(***************************************************************************)
(* State.  Two multiplexers, "A" and "B", joined by one transport; every   *)
(* variable is indexed by the side it belongs to.                          *)
(***************************************************************************)
VARIABLES
    mp,        \* Multiplex: initiator, nextID, closed, ch_lock, channels
    streams,   \* every Stream object ever made by newStream, by reference
    ser,       \* the handleOutgoing goroutine: pc and the msg it took
    srv,       \* the goroutine running Serve: pc, the frame, msch
    usr,       \* user goroutines calling the public operations
    cl,        \* per goroutine: its call of Stream.Close in progress
    wire,      \* every byte written to the transport by this side
    rpos,      \* how many bytes of the peer's wire Serve has consumed
    eof,       \* the transport's read side has reached end of input
    panicked,  \* a goroutine of this process panicked: the process is gone
    known,     \* Streams user code holds: returned or handed to handler
    bud,       \* how many more operations of each kind the users start
    gh         \* history: what was issued, spawned, written, returned,
               \* the panic that ended the process, con.Close() calls

vars == <<mp, streams, ser, srv, usr, cl, wire, rpos, eof, panicked, known,
          bud, gh>>

Sides == {"A", "B"}
Peer(m) == IF m = "A" THEN "B" ELSE "A"
Users == {"u1", "u2"}
Tasks == Users \cup {"srv"}

NoMsg == [header |-> 0, data |-> <<>>]
NoRet == [op |-> "", n |-> 0, err |-> "", s |-> 0, late |-> FALSE]
NoCall == [pc |-> "none", s |-> 0]
IdleUser == [pc |-> "idle", s |-> 0, b |-> <<>>, n |-> 0, lb |-> 0,
             nread |-> 0, got |-> <<>>, todo |-> {}, late |-> FALSE,
             ret |-> NoRet]
IdleServe == [pc |-> "off", ch |-> 0, tag |-> 0, b |-> <<>>, msch |-> 0,
              todo |-> {}, ret |-> ""]
NoStreamHist == [wrote |-> <<>>, delivered |-> <<>>, readOut |-> <<>>,
                 closeRet |-> FALSE, closeMsgs |-> 0, pre |-> 0,
                 local |-> FALSE]

\* NewMultiplex(con, initiator)
NewMultiplex(initiator) ==
    [initiator |-> initiator, nextID |-> 0, closed |-> FALSE,
     ch_lock |-> "free", channels |-> {}]

\* (mutant) a constructor that gives every stream the initiator's data tag
newStreamInitiatorTag(id, name, initiator) ==
    [id |-> id, name |-> name, header |-> Header(id, 2),
     closed |-> FALSE, data_in |-> <<>>, in_closed |-> FALSE, buf |-> <<>>]

\* newStream(id, name, initiator, send)
newStream(id, name, initiator) ==
    [id |-> id, name |-> name,
     header |-> Header(id, IF initiator THEN 2 ELSE 1),
     closed |-> FALSE, data_in |-> <<>>, in_closed |-> FALSE, buf |-> <<>>]

NoBudget == [new |-> 0, write |-> 0, read |-> 0, sclose |-> 0, mclose |-> 0,
             peer |-> 0]

\* the state after NewMultiplex on both sides, before Serve is called
InitWith(initA, initB, budA, budB) ==
    /\ mp = [m \in Sides |-> NewMultiplex(IF m = "A" THEN initA ELSE initB)]
    /\ streams = [m \in Sides |-> <<>>]
    /\ ser = [m \in Sides |-> [pc |-> "off", msg |-> NoMsg]]
    /\ srv = [m \in Sides |-> IdleServe]
    /\ usr = [m \in Sides |-> [t \in Users |-> IdleUser]]
    /\ cl = [m \in Sides |-> [t \in Tasks |-> NoCall]]
    /\ wire = [m \in Sides |-> <<>>]
    /\ rpos = [m \in Sides |-> 0]
    /\ eof = [m \in Sides |-> FALSE]
    /\ panicked = [m \in Sides |-> FALSE]
    /\ known = [m \in Sides |-> {}]
    /\ bud = [m \in Sides |-> IF m = "A" THEN budA ELSE budB]
    /\ gh = [m \in Sides |-> [issued |-> <<>>, spawned |-> <<>>, st |-> <<>>,
                              mcRet |-> FALSE, panic |-> "",
                              conClosed |-> FALSE]]

Min(a, b) == IF a < b THEN a ELSE b
Take(s, k) == IF k = 0 THEN <<>> ELSE SubSeq(s, 1, k)
Drop(s, k) == SubSeqFrom(s, k + 1)

\* a goroutine of side m may take a step
Alive(m) == ~panicked[m]
\* a runtime panic in a goroutine of side m: the process ends with `why`
Panic(m, why) ==
    /\ panicked' = [panicked EXCEPT ![m] = TRUE]
    /\ gh' = [gh EXCEPT ![m].panic = why]
\* the goroutine is not inside a call of Stream.Close
NotClosing(m, t) == cl[m][t].pc = "none"
\* mp.ch_lock.Lock() can be taken
LockFree(m) == mp[m].ch_lock = "free"
\* (mutant) a serializer that also receives between the writes of a frame
SerializerReadyMidFrame(m) == ser[m].pc \in {"recv", "len"}

\* the serializer is parked in its select, ready to receive from outchan
SerializerReady(m) == ser[m].pc = "recv"

\* a send on mp.outchan (unbuffered): the serializer takes the message
Handed(m, msg) == [ser EXCEPT ![m] = [pc |-> "hdr", msg |-> msg]]


\* mp.channels, a map[uint64]*Stream, as a set of <<id, reference>> pairs
MapHas(ch, id) == \E e \in ch : e[1] = id
MapGet(ch, id) == (CHOOSE e \in ch : e[1] = id)[2]
MapPut(ch, id, ref) == {e \in ch : e[1] # id} \cup {<<id, ref>>}
MapDelete(ch, id) == {e \in ch : e[1] # id}
MapRange(ch) == {e[2] : e \in ch}

\* a user goroutine returns from a call
Return(m, t, op, n, err, s) ==
    [usr EXCEPT ![m][t] = [IdleUser EXCEPT !.ret =
                              [op |-> op, n |-> n, err |-> err, s |-> s,
                               late |-> usr[m][t].late]]]

(***************************************************************************)
(* handleOutgoing: receive a msg from outchan (the sender's step hands it  *)
(* over, see Handed), then three con.Write calls: header varint, length    *)
(* varint, payload.  The select's other case returns once mp.closed fired. *)
(***************************************************************************)
handleOutgoingNext(pc) ==
    IF pc = "hdr" THEN "len" ELSE IF pc = "len" THEN "data" ELSE "recv"

handleOutgoingWrite(m) ==
    /\ Alive(m)
    /\ ser[m].pc \in {"hdr", "len", "data"}
    /\ LET msg == ser[m].msg
           buf == IF ser[m].pc = "hdr" THEN EncodeVarint(msg.header)
                  ELSE IF ser[m].pc = "len" THEN EncodeVarint(Len(msg.data))
                  ELSE msg.data
       IN  /\ wire' = [wire EXCEPT ![m] = @ \o buf]
           /\ ser' = [ser EXCEPT ![m].pc = handleOutgoingNext(ser[m].pc),
                                 ![m].msg = IF ser[m].pc = "data" THEN NoMsg
                                            ELSE @]
    /\ UNCHANGED <<mp, streams, srv, usr, cl, rpos, eof, panicked, known,
                   bud, gh>>

handleOutgoingClosed(m) ==
    /\ Alive(m)
    /\ ser[m].pc = "recv"
    /\ mp[m].closed
    /\ ser' = [ser EXCEPT ![m].pc = "done"]
    /\ UNCHANGED <<mp, streams, srv, usr, cl, wire, rpos, eof, panicked,
                   known, bud, gh>>

(***************************************************************************)
(* nextChanID and NewNamedStream.  Lines 232-241 run under ch_lock and     *)
(* touch nothing but the map and nextID, so they are one step; the send to *)
(* outchan (243) blocks until the serializer receives.                     *)
(***************************************************************************)
\* (mutant) an allocator that ignores the initiator flag
nextChanIDNoParity(m) == mp[m].nextID

nextChanID(m) ==
    IF mp[m].initiator THEN mp[m].nextID + 1 ELSE mp[m].nextID

NewNamedStreamCall(m, t, name) ==
    /\ Alive(m)
    /\ usr[m][t].pc = "idle"
    /\ bud[m].new > 0
    /\ bud' = [bud EXCEPT ![m].new = @ - 1]
    /\ usr' = [usr EXCEPT ![m][t] = [IdleUser EXCEPT !.pc = "ns_lock",
                                        !.b = name, !.late = gh[m].mcRet]]
    /\ UNCHANGED <<mp, streams, ser, srv, cl, wire, rpos, eof, panicked,
                   known, gh>>

NewNamedStreamInsert(m, t) ==
    /\ Alive(m)
    /\ usr[m][t].pc = "ns_lock"
    /\ LockFree(m)
    /\ LET sid  == nextChanID(m)
           name == IF usr[m][t].b = <<>> THEN Sprint(sid) ELSE usr[m][t].b
           ref  == Len(streams[m]) + 1
       IN  /\ streams' = [streams EXCEPT ![m] =
                             Append(@, newStream(sid, name, TRUE))]
           /\ mp' = [mp EXCEPT ![m].channels = MapPut(@, sid, ref),
                               ![m].nextID = @ + 2]
           /\ usr' = [usr EXCEPT ![m][t].pc = "ns_send", ![m][t].s = ref,
                                 ![m][t].b = name]
           /\ gh' = [gh EXCEPT ![m].issued = Append(@, sid),
                               ![m].st = Append(@, [NoStreamHist EXCEPT
                                                      !.local = TRUE])]
    /\ UNCHANGED <<ser, srv, cl, wire, rpos, eof, panicked, known, bud>>

NewNamedStreamSend(m, t) ==
    /\ Alive(m)
    /\ usr[m][t].pc = "ns_send"
    /\ SerializerReady(m)
    /\ LET s == usr[m][t].s
       IN  /\ ser' = Handed(m, [header |-> Header(streams[m][s].id, NewStream),
                                data |-> usr[m][t].b])
           /\ known' = [known EXCEPT ![m] = @ \cup {s}]
           /\ usr' = Return(m, t, "new", 0, "", s)
    /\ UNCHANGED <<mp, streams, srv, cl, wire, rpos, eof, panicked, bud, gh>>

(***************************************************************************)
(* Stream.Write: one select between the send to data_out (= mp.outchan)    *)
(* and <-s.closed.  When both are ready either may be chosen.              *)
(***************************************************************************)
\* the payload of the k-th Write on a stream: bytes that occur nowhere else
Payload(s, from, len) == [i \in 1..len |-> 16 * s + from + i]

WriteCall(m, t, s, len) ==
    /\ Alive(m)
    /\ usr[m][t].pc = "idle"
    /\ bud[m].write > 0
    /\ s \in known[m]
    /\ bud' = [bud EXCEPT ![m].write = @ - 1]
    /\ usr' = [usr EXCEPT ![m][t] =
                  [IdleUser EXCEPT !.pc = "write", !.s = s,
                      !.b = Payload(s, Len(gh[m].st[s].wrote), len),
                      !.late = gh[m].st[s].closeRet]]
    /\ UNCHANGED <<mp, streams, ser, srv, cl, wire, rpos, eof, panicked,
                   known, gh>>

WriteSend(m, t) ==
    /\ Alive(m)
    /\ usr[m][t].pc = "write"
    /\ SerializerReady(m)
    /\ LET s == usr[m][t].s
           b == usr[m][t].b
       IN  /\ ser' = Handed(m, [header |-> streams[m][s].header, data |-> b])
           /\ gh' = [gh EXCEPT ![m].st[s].wrote = @ \o b]
           /\ usr' = Return(m, t, "write", Len(b), "", s)
    /\ UNCHANGED <<mp, streams, srv, cl, wire, rpos, eof, panicked, known,
                   bud>>

WriteClosed(m, t) ==
    /\ Alive(m)
    /\ usr[m][t].pc = "write"
    /\ streams[m][usr[m][t].s].closed
    /\ usr' = Return(m, t, "write", 0, "stream closed", usr[m][t].s)
    /\ UNCHANGED <<mp, streams, ser, srv, cl, wire, rpos, eof, panicked,
                   known, bud, gh>>


(***************************************************************************)
(* Stream.Close, whoever calls it (a user, Serve on a Close frame,         *)
(* Multiplex.Close, shutdown).  Four steps: the select on s.closed,        *)
(* close(s.closed), the non-blocking send of the Close frame, and          *)
(* close(s.data_in).  Closing a closed channel panics.                     *)
(***************************************************************************)
\* (mutant) a Close without the select on s.closed
CloseNeverSeesClosed(m, s) == FALSE

\* the select's first case: s.closed has fired, return nil
CloseSeesClosed(m, s) == streams[m][s].closed

\* the header of the frame Stream.Close sends
CloseHeader(m, s) == Header(streams[m][s].id, Close)

\* Stream.Close returns nil to its caller: a user's call is over; Serve,
\* Multiplex.Close and shutdown go on with their next statement
CloseReturns(m, t) ==
    IF t \in Users /\ usr[m][t].pc = "sclose"
    THEN /\ usr' = Return(m, t, "close", 0, "", usr[m][t].s)
         /\ gh' = [gh EXCEPT ![m].st[usr[m][t].s].closeRet = TRUE]
    ELSE UNCHANGED <<usr, gh>>

StreamCloseCheck(m, t) ==
    /\ Alive(m)
    /\ cl[m][t].pc = "check"
    /\ IF CloseSeesClosed(m, cl[m][t].s)
       THEN /\ cl' = [cl EXCEPT ![m][t] = NoCall]
            /\ CloseReturns(m, t)
       ELSE /\ cl' = [cl EXCEPT ![m][t].pc = "closed"]
            /\ UNCHANGED <<usr, gh>>
    /\ UNCHANGED <<mp, streams, ser, srv, wire, rpos, eof, panicked, known,
                   bud>>

StreamCloseSignal(m, t) ==
    /\ Alive(m)
    /\ cl[m][t].pc = "closed"
    /\ LET s == cl[m][t].s
       IN  IF streams[m][s].closed
           THEN /\ Panic(m, "close of closed channel")
                /\ UNCHANGED <<streams, cl>>
           ELSE /\ streams' = [streams EXCEPT ![m][s].closed = TRUE]
                /\ cl' = [cl EXCEPT ![m][t].pc = "send"]
                /\ gh' = [gh EXCEPT ![m].st[s].pre =
                                       Len(gh[m].st[s].delivered)]
                /\ UNCHANGED panicked
    /\ UNCHANGED <<mp, ser, srv, usr, wire, rpos, eof, known, bud>>

StreamCloseSend(m, t) ==
    /\ Alive(m)
    /\ cl[m][t].pc = "send"
    /\ LET s == cl[m][t].s
       IN  IF SerializerReady(m)
           THEN /\ ser' = Handed(m, [header |-> CloseHeader(m, s),
                                     data |-> <<>>])
                /\ gh' = [gh EXCEPT ![m].st[s].closeMsgs = @ + 1]
           ELSE UNCHANGED <<ser, gh>>
    /\ cl' = [cl EXCEPT ![m][t].pc = "data_in"]
    /\ UNCHANGED <<mp, streams, srv, usr, wire, rpos, eof, panicked, known,
                   bud>>

StreamCloseInbox(m, t) ==
    /\ Alive(m)
    /\ cl[m][t].pc = "data_in"
    /\ LET s == cl[m][t].s
       IN  IF streams[m][s].in_closed
           THEN /\ Panic(m, "close of closed channel")
                /\ UNCHANGED <<streams, cl, usr>>
           ELSE /\ streams' = [streams EXCEPT ![m][s].in_closed = TRUE]
                /\ cl' = [cl EXCEPT ![m][t] = NoCall]
                /\ CloseReturns(m, t)
                /\ UNCHANGED panicked
    /\ UNCHANGED <<mp, ser, srv, wire, rpos, eof, known, bud>>

\* a user goroutine calls s.Close()
CloseCall(m, t, s) ==
    /\ Alive(m)
    /\ usr[m][t].pc = "idle"
    /\ bud[m].sclose > 0
    /\ s \in known[m]
    /\ bud' = [bud EXCEPT ![m].sclose = @ - 1]
    /\ usr' = [usr EXCEPT ![m][t] =
                  [IdleUser EXCEPT !.pc = "sclose", !.s = s,
                                   !.late = gh[m].st[s].closeRet]]
    /\ cl' = [cl EXCEPT ![m][t] = [pc |-> "check", s |-> s]]
    /\ UNCHANGED <<mp, streams, ser, srv, wire, rpos, eof, panicked, known,
                   gh>>

(***************************************************************************)
(* Stream.Read(b), b of length n.  ReadFirst is lines 72-92: the select on *)
(* s.closed and the residual buffer (which only the reader touches).       *)
(* ReadReceive and ReadClosed are the two cases of the loop's select.      *)
(***************************************************************************)
\* the select at the top of Read: s.closed has fired, return (0, io.EOF)
ReadSeesClosed(m, s) == streams[m][s].closed

\* a Read of the stream is in progress (bytes.Buffer is not safe for two)
Reading(m, s) == \E t \in Users : usr[m][t].pc \in {"read", "read_loop"}
                                  /\ usr[m][t].s = s

ReadCall(m, t, s, n) ==
    /\ Alive(m)
    /\ usr[m][t].pc = "idle"
    /\ bud[m].read > 0
    /\ s \in known[m]
    /\ ~Reading(m, s)
    /\ bud' = [bud EXCEPT ![m].read = @ - 1]
    /\ usr' = [usr EXCEPT ![m][t] =
                  [IdleUser EXCEPT !.pc = "read", !.s = s, !.n = n, !.lb = n,
                                   !.late = streams[m][s].closed]]
    /\ UNCHANGED <<mp, streams, ser, srv, cl, wire, rpos, eof, panicked,
                   known, gh>>

\* Read returns (n, err), the first n bytes of b being `got`
ReadReturn(m, t, n, err, got) ==
    /\ usr' = Return(m, t, "read", n, err, usr[m][t].s)
    /\ gh' = [gh EXCEPT ![m].st[usr[m][t].s].readOut = @ \o Take(got, n)]

ReadFirst(m, t) ==
    /\ Alive(m)
    /\ usr[m][t].pc = "read"
    /\ LET s   == usr[m][t].s
           n   == usr[m][t].n
           buf == streams[m][s].buf
           k   == Min(n, Len(buf))
       IN  IF ReadSeesClosed(m, s)
           THEN /\ ReadReturn(m, t, 0, "EOF", <<>>)
                /\ UNCHANGED streams
           ELSE IF Len(buf) > 0
           THEN /\ streams' = [streams EXCEPT ![m][s].buf = Drop(buf, k)]
                /\ IF k >= n
                   THEN ReadReturn(m, t, k, "", Take(buf, k))
                   ELSE /\ usr' = [usr EXCEPT ![m][t].pc = "read_loop",
                                              ![m][t].n = n - k,
                                              ![m][t].nread = k,
                                              ![m][t].got = Take(buf, k)]
                        /\ UNCHANGED gh
           ELSE /\ UNCHANGED streams
                /\ IF n = 0
                   THEN ReadReturn(m, t, 0, "", <<>>)
                   ELSE /\ usr' = [usr EXCEPT ![m][t].pc = "read_loop"]
                        /\ UNCHANGED gh
    /\ UNCHANGED <<mp, ser, srv, cl, wire, rpos, eof, panicked, known, bud>>

\* (mutant) the unread suffix of a payload is not kept
ResidualLost(data, k) == <<>>

\* data[n:], the suffix that goes to s.buf
Residual(data, k) == Drop(data, k)

ReadReceive(m, t) ==
    /\ Alive(m)
    /\ usr[m][t].pc = "read_loop"
    /\ LET s    == usr[m][t].s
           u    == usr[m][t]
           q    == streams[m][s].data_in
       IN  IF q # <<>>
           THEN LET data == Head(q)
                    k    == Min(u.n, Len(data))
                IN  /\ streams' = [streams EXCEPT
                                     ![m][s].data_in = Tail(q),
                                     ![m][s].buf = @ \o Residual(data, k)]
                    /\ IF k < Len(data) \/ u.n - k = 0
                       THEN ReadReturn(m, t, u.lb, "", u.got \o Take(data, k))
                       ELSE /\ usr' = [usr EXCEPT ![m][t].n = u.n - k,
                                                  ![m][t].nread = u.nread + k,
                                                  ![m][t].got = @ \o data]
                            /\ UNCHANGED gh
           ELSE /\ streams[m][s].in_closed
                /\ ReadReturn(m, t, u.nread, "", u.got)
                /\ UNCHANGED streams
    /\ UNCHANGED <<mp, ser, srv, cl, wire, rpos, eof, panicked, known, bud>>

ReadClosed(m, t) ==
    /\ Alive(m)
    /\ usr[m][t].pc = "read_loop"
    /\ streams[m][usr[m][t].s].closed
    /\ ReadReturn(m, t, usr[m][t].nread, "", usr[m][t].got)
    /\ UNCHANGED <<mp, streams, ser, srv, cl, wire, rpos, eof, panicked,
                   known, bud>>


(***************************************************************************)
(* Multiplex.Close: IsClosed, close(mp.closed), Lock, s.Close() for every  *)
(* stream of the map (in any order: a Go map range), deferred Unlock.      *)
(***************************************************************************)
IsClosed(m) == mp[m].closed

MultiplexCloseCall(m, t) ==
    /\ Alive(m)
    /\ usr[m][t].pc = "idle"
    /\ bud[m].mclose > 0
    /\ bud' = [bud EXCEPT ![m].mclose = @ - 1]
    /\ usr' = IF IsClosed(m)
              THEN [usr EXCEPT ![m][t] =
                       [IdleUser EXCEPT !.ret = [NoRet EXCEPT !.op = "mclose",
                                                   !.late = gh[m].mcRet]]]
              ELSE [usr EXCEPT ![m][t] = [IdleUser EXCEPT !.pc = "mc_close",
                                             !.late = gh[m].mcRet]]
    /\ UNCHANGED <<mp, streams, ser, srv, cl, wire, rpos, eof, panicked,
                   known, gh>>

MultiplexCloseSignal(m, t) ==
    /\ Alive(m)
    /\ usr[m][t].pc = "mc_close"
    /\ IF mp[m].closed
       THEN /\ Panic(m, "close of closed channel")
            /\ UNCHANGED <<mp, usr>>
       ELSE /\ mp' = [mp EXCEPT ![m].closed = TRUE]
            /\ usr' = [usr EXCEPT ![m][t].pc = "mc_lock"]
            /\ UNCHANGED <<panicked, gh>>
    /\ UNCHANGED <<streams, ser, srv, cl, wire, rpos, eof, known, bud>>

MultiplexCloseLock(m, t) ==
    /\ Alive(m)
    /\ usr[m][t].pc = "mc_lock"
    /\ LockFree(m)
    /\ mp' = [mp EXCEPT ![m].ch_lock = t]
    /\ usr' = [usr EXCEPT ![m][t].pc = "mc_range",
                          ![m][t].todo = MapRange(mp[m].channels)]
    /\ UNCHANGED <<streams, ser, srv, cl, wire, rpos, eof, panicked, known,
                   bud, gh>>

MultiplexCloseRange(m, t) ==
    /\ Alive(m)
    /\ usr[m][t].pc = "mc_range"
    /\ NotClosing(m, t)
    /\ IF usr[m][t].todo = {}
       THEN /\ mp' = [mp EXCEPT ![m].ch_lock = "free"]
            /\ usr' = Return(m, t, "mclose", 0, "", 0)
            /\ gh' = [gh EXCEPT ![m].mcRet = TRUE]
            /\ UNCHANGED cl
       ELSE /\ \E s \in usr[m][t].todo :
                 /\ usr' = [usr EXCEPT ![m][t].todo = @ \ {s}]
                 /\ cl' = [cl EXCEPT ![m][t] = [pc |-> "check", s |-> s]]
            /\ UNCHANGED <<mp, gh>>
    /\ UNCHANGED <<streams, ser, srv, wire, rpos, eof, panicked, known, bud>>

(***************************************************************************)
(* Serve(handler): start handleOutgoing, then the dispatch loop.           *)
(***************************************************************************)
ServeStart(m) ==
    /\ Alive(m)
    /\ srv[m].pc = "off"
    /\ srv' = [srv EXCEPT ![m].pc = "read"]
    /\ ser' = [ser EXCEPT ![m].pc = "recv"]
    /\ UNCHANGED <<mp, streams, usr, cl, wire, rpos, eof, panicked, known,
                   bud, gh>>

\* the bytes of the transport Serve has not consumed yet
Unread(m) == Drop(wire[Peer(m)], rpos[m])

\* readNextHeader and readNext (256-270): a frame, or Serve returns
ServeRead(m) ==
    /\ Alive(m)
    /\ srv[m].pc = "read"
    /\ LET r == ReadFrame(Unread(m), eof[m])
       IN  /\ r.st # "block"
           /\ IF r.st = "frame"
              THEN /\ rpos' = [rpos EXCEPT ![m] = @ + r.used]
                   /\ srv' = [srv EXCEPT ![m].pc = "dispatch", ![m].ch = r.ch,
                                         ![m].tag = r.tag, ![m].b = r.b]
              ELSE /\ srv' = [srv EXCEPT ![m].pc = "sd_lock", ![m].ret = r.st]
                   /\ UNCHANGED rpos
    /\ UNCHANGED <<mp, streams, ser, usr, cl, wire, eof, panicked, known,
                   bud, gh>>

\* the tag of a frame that closes the stream (289)
IsCloseTag(tag) == tag = Close

\* lines 272-287, under ch_lock: look the stream up, or make it and spawn
\* the handler; then choose between continue, Close and receive
ServeDispatch(m) ==
    /\ Alive(m)
    /\ srv[m].pc = "dispatch"
    /\ LockFree(m)
    /\ LET ch   == srv[m].ch
           tag  == srv[m].tag
           ok   == MapHas(mp[m].channels, ch)
           ref  == IF ok THEN MapGet(mp[m].channels, ch)
                         ELSE Len(streams[m]) + 1
           name == IF tag = NewStream THEN srv[m].b ELSE <<>>
       IN  /\ IF ok
              THEN UNCHANGED <<streams, mp, known, gh>>
              ELSE /\ streams' = [streams EXCEPT ![m] =
                                     Append(@, newStream(ch, name, FALSE))]
                   /\ mp' = [mp EXCEPT ![m].channels = MapPut(@, ch, ref)]
                   /\ known' = [known EXCEPT ![m] = @ \cup {ref}]
                   /\ gh' = [gh EXCEPT ![m].spawned = Append(@, ref),
                                       ![m].st = Append(@, NoStreamHist)]
           /\ IF ~ok /\ tag = NewStream
              THEN /\ srv' = [srv EXCEPT ![m] = [IdleServe EXCEPT !.pc = "read"]]
                   /\ UNCHANGED cl
              ELSE IF IsCloseTag(tag)
              THEN /\ srv' = [srv EXCEPT ![m].pc = "delete", ![m].msch = ref]
                   /\ cl' = [cl EXCEPT ![m]["srv"] = [pc |-> "check", s |-> ref]]
              ELSE /\ srv' = [srv EXCEPT ![m].pc = "receive", ![m].msch = ref]
                   /\ UNCHANGED cl
    /\ UNCHANGED <<ser, usr, wire, rpos, eof, panicked, bud>>

\* lines 291-294, after msch.Close() returned
ServeDelete(m) ==
    /\ Alive(m)
    /\ srv[m].pc = "delete"
    /\ NotClosing(m, "srv")
    /\ LockFree(m)
    /\ mp' = [mp EXCEPT ![m].channels = MapDelete(@, srv[m].ch)]
    /\ srv' = [srv EXCEPT ![m] = [IdleServe EXCEPT !.pc = "read"]]
    /\ UNCHANGED <<streams, ser, usr, cl, wire, rpos, eof, panicked, known,
                   bud, gh>>

(***************************************************************************)
(* Stream.receive(b): a select between the send into data_in (ready when   *)
(* the channel has room; a send on a closed channel panics) and <-s.closed.*)
(***************************************************************************)
receiveSend(m) ==
    /\ Alive(m)
    /\ srv[m].pc = "receive"
    /\ LET s == srv[m].msch
       IN  IF streams[m][s].in_closed
           THEN /\ Panic(m, "send on closed channel")
                /\ UNCHANGED <<streams, srv>>
           ELSE /\ Len(streams[m][s].data_in) < InboxCap
                /\ streams' = [streams EXCEPT ![m][s].data_in =
                                                  Append(@, srv[m].b)]
                /\ gh' = [gh EXCEPT ![m].st[s].delivered = @ \o srv[m].b]
                /\ srv' = [srv EXCEPT ![m] = [IdleServe EXCEPT !.pc = "read"]]
                /\ UNCHANGED panicked
    /\ UNCHANGED <<mp, ser, usr, cl, wire, rpos, eof, known, bud>>

receiveClosed(m) ==
    /\ Alive(m)
    /\ srv[m].pc = "receive"
    /\ streams[m][srv[m].msch].closed
    /\ srv' = [srv EXCEPT ![m] = [IdleServe EXCEPT !.pc = "read"]]
    /\ UNCHANGED <<mp, streams, ser, usr, cl, wire, rpos, eof, panicked,
                   known, bud, gh>>

(***************************************************************************)
(* shutdown, deferred from Serve: Lock, s.Close() for every stream of the  *)
(* map, Unlock; then Serve returns srv.ret.                                *)
(***************************************************************************)
shutdownLock(m) ==
    /\ Alive(m)
    /\ srv[m].pc = "sd_lock"
    /\ LockFree(m)
    /\ mp' = [mp EXCEPT ![m].ch_lock = "srv"]
    /\ srv' = [srv EXCEPT ![m].pc = "sd_range",
                          ![m].todo = MapRange(mp[m].channels)]
    /\ UNCHANGED <<streams, ser, usr, cl, wire, rpos, eof, panicked, known,
                   bud, gh>>

shutdownRange(m) ==
    /\ Alive(m)
    /\ srv[m].pc = "sd_range"
    /\ NotClosing(m, "srv")
    /\ IF srv[m].todo = {}
       THEN /\ mp' = [mp EXCEPT ![m].ch_lock = "free"]
            /\ srv' = [srv EXCEPT ![m].pc = "done"]
            /\ UNCHANGED cl
       ELSE /\ \E s \in srv[m].todo :
                 /\ srv' = [srv EXCEPT ![m].todo = @ \ {s}]
                 /\ cl' = [cl EXCEPT ![m]["srv"] = [pc |-> "check", s |-> s]]
            /\ UNCHANGED mp
    /\ UNCHANGED <<streams, ser, usr, wire, rpos, eof, panicked, known, bud,
                   gh>>

(***************************************************************************)
(* The remote end as the environment: it writes whole frames to the        *)
(* transport, and may end it.                                              *)
(***************************************************************************)
PeerSend(m, id, tag, b) ==
    /\ ~eof[m]
    /\ bud[m].peer > 0
    /\ bud' = [bud EXCEPT ![m].peer = @ - 1]
    /\ wire' = [wire EXCEPT ![Peer(m)] = @ \o EncodeFrame(Header(id, tag), b)]
    /\ UNCHANGED <<mp, streams, ser, srv, usr, cl, rpos, eof, panicked,
                   known, gh>>

PeerEOF(m) ==
    /\ ~eof[m]
    /\ eof' = [eof EXCEPT ![m] = TRUE]
    /\ UNCHANGED <<mp, streams, ser, srv, usr, cl, wire, rpos, panicked,
                   known, bud, gh>>



(***************************************************************************)
(* Specification Spec: multiplexer "A" is served; two user goroutines      *)
(* open streams, write on them and close them, concurrently.  The remote   *)
(* end sends nothing.                                                      *)
(***************************************************************************)
MaxNew == 2
MaxWrite == 1
MaxStreamClose == 1
MaxLen == 1

Names == {<<>>, <<103>>}

Init ==
    InitWith(TRUE, FALSE,
             [NoBudget EXCEPT !.new = MaxNew, !.write = MaxWrite,
                              !.sclose = MaxStreamClose],
             NoBudget)

Next ==
    \/ ServeStart("A")
    \/ handleOutgoingWrite("A")
    \/ \E t \in Users, name \in Names : NewNamedStreamCall("A", t, name)
    \/ \E t \in Users : NewNamedStreamInsert("A", t)
    \/ \E t \in Users : NewNamedStreamSend("A", t)
    \/ \E t \in Users, s \in known["A"], len \in 0..MaxLen :
          WriteCall("A", t, s, len)
    \/ \E t \in Users : WriteSend("A", t)
    \/ \E t \in Users : WriteClosed("A", t)
    \/ \E t \in Users, s \in known["A"] : CloseCall("A", t, s)
    \/ \E t \in Users : StreamCloseCheck("A", t)
    \/ \E t \in Users : StreamCloseSignal("A", t)
    \/ \E t \in Users : StreamCloseSend("A", t)
    \/ \E t \in Users : StreamCloseInbox("A", t)

Spec == Init /\ [][Next]_vars

\* C1: a Write called after a Stream.Close on the stream returned gives
\* (0, stream closed) and hands nothing to the outbound channel.
C1_WriteAfterCloseFails ==
    \A t \in Users :
        LET r == usr["A"][t].ret
        IN  (r.op = "write" /\ r.late) => (r.n = 0 /\ r.err = "stream closed")

(***************************************************************************)
(* The wire as frames.  WholeFrames(bs): bs is a concatenation of whole    *)
(* frames (header varint, length varint, that many payload bytes).         *)
(***************************************************************************)
RECURSIVE WholeFrames(_)
WholeFrames(bs) ==
    \/ bs = <<>>
    \/ LET r == ReadFrame(bs, TRUE)
       IN  r.st = "frame" /\ WholeFrames(Drop(bs, r.used))

\* what handleOutgoing has written so far of the message it is sending
InProgress(m) ==
    IF ser[m].pc = "len" THEN EncodeVarint(ser[m].msg.header)
    ELSE IF ser[m].pc = "data"
         THEN EncodeVarint(ser[m].msg.header)
                \o EncodeVarint(Len(ser[m].msg.data))
         ELSE <<>>

\* C5: the bytes written to the transport are whole frames, followed only
\* by the writes already made for the one frame the serializer is sending.
C5_FrameAtomicity ==
    LET w == wire["A"]
        k == Len(w) - Len(InProgress("A"))
    IN  /\ k >= 0
        /\ Drop(w, k) = InProgress("A")
        /\ WholeFrames(Take(w, k))

\* a second message was taken while the first frame was still being written
C5_Witness ==
    /\ ser["A"].pc \in {"len", "data"}
    /\ Len(wire["A"]) > Len(InProgress("A"))
    /\ \E t \in Users : usr["A"][t].pc \in {"write", "ns_send"}
    /\ \E t \in Users : cl["A"][t].pc = "send"


(***************************************************************************)
(* Specification SpecAlloc: concurrent NewStream / NewNamedStream callers  *)
(* on a served multiplexer, constructed with either initiator flag.        *)
(***************************************************************************)
MaxAlloc == 3

InitAlloc ==
    \E i \in BOOLEAN :
        InitWith(i, ~i, [NoBudget EXCEPT !.new = MaxAlloc], NoBudget)

NextAlloc ==
    \/ ServeStart("A")
    \/ handleOutgoingWrite("A")
    \/ \E t \in Users, name \in Names : NewNamedStreamCall("A", t, name)
    \/ \E t \in Users : NewNamedStreamInsert("A", t)
    \/ \E t \in Users : NewNamedStreamSend("A", t)

SpecAlloc == InitAlloc /\ [][NextAlloc]_vars

\* C6: the k-th locally created stream has id 2k-1 on an initiator and
\* 2k-2 otherwise, whatever the interleaving of the callers.
C6_IdAllocation ==
    \A k \in 1..Len(gh["A"].issued) :
        /\ gh["A"].issued[k] = IF mp["A"].initiator THEN 2 * k - 1
                                                    ELSE 2 * k - 2
        /\ streams["A"][k].id = gh["A"].issued[k]

\* both callers are inside NewNamedStream at once, the third id issued
C6_Witness ==
    /\ Len(gh["A"].issued) = 3
    /\ mp["A"].initiator
    /\ \A t \in Users : usr["A"][t].pc = "ns_send"

(***************************************************************************)
(* Specification SpecShutdown: users open streams; u1 closes streams and   *)
(* u2 closes the multiplexer, each more than once.                         *)
(***************************************************************************)
MaxShutNew == 2
MaxShutClose == 2
MaxShutMultiplexClose == 2

InitShutdown ==
    InitWith(TRUE, FALSE,
             [NoBudget EXCEPT !.new = MaxShutNew, !.sclose = MaxShutClose,
                              !.mclose = MaxShutMultiplexClose],
             NoBudget)

NextShutdown ==
    \/ ServeStart("A")
    \/ handleOutgoingWrite("A")
    \/ handleOutgoingClosed("A")
    \/ \E t \in Users : NewNamedStreamCall("A", t, <<>>)
    \/ \E t \in Users : NewNamedStreamInsert("A", t)
    \/ \E t \in Users : NewNamedStreamSend("A", t)
    \/ \E s \in known["A"] : CloseCall("A", "u1", s)
    \/ \E t \in Users : StreamCloseCheck("A", t)
    \/ \E t \in Users : StreamCloseSignal("A", t)
    \/ \E t \in Users : StreamCloseSend("A", t)
    \/ \E t \in Users : StreamCloseInbox("A", t)
    \/ MultiplexCloseCall("A", "u2")
    \/ MultiplexCloseSignal("A", "u2")
    \/ MultiplexCloseLock("A", "u2")
    \/ MultiplexCloseRange("A", "u2")

SpecShutdown == InitShutdown /\ [][NextShutdown]_vars

\* C9: NewStream / NewNamedStream called after Multiplex.Close returned
\* inserts no stream and returns a failure.
C9_NewStreamAfterCloseFails ==
    \A t \in Users :
        /\ usr["A"][t].pc = "ns_send" => ~usr["A"][t].late
        /\ (usr["A"][t].ret.op = "new" /\ usr["A"][t].ret.late)
              => usr["A"][t].ret.err # ""

\* C10: a Stream.Close called after a Stream.Close on the stream returned,
\* and a Multiplex.Close called after a Multiplex.Close returned, never get
\* past their closed test (so they change nothing and send nothing) and
\* return nil; local closes emit at most one Close frame per stream.
C10_CloseIdempotent ==
    /\ \A s \in 1..Len(streams["A"]) : gh["A"].st[s].closeMsgs <= 1
    /\ \A t \in Users :
          LET u == usr["A"][t]
          IN  /\ (u.pc = "sclose" /\ u.late) => cl["A"][t].pc = "check"
              /\ u.late => u.pc \notin {"mc_close", "mc_lock", "mc_range"}
              /\ (u.ret.op \in {"close", "mclose"} /\ u.ret.late)
                    => u.ret.err = ""

\* a second Close of a stream and a second Close of the multiplexer returned
C10_Witness ==
    /\ usr["A"]["u1"].ret.op = "close" /\ usr["A"]["u1"].ret.late
    /\ usr["A"]["u2"].ret.op = "mclose" /\ usr["A"]["u2"].ret.late
    /\ \E s \in 1..Len(streams["A"]) : gh["A"].st[s].closeMsgs = 1


(***************************************************************************)
(* Specification SpecInbound: multiplexer "A" is served and the remote end *)
(* sends it frames; u1 reads the streams handed to the handler, u2 closes  *)
(* them.                                                                   *)
(***************************************************************************)
MaxInFrames == 3
MaxInRead == 1
MaxInReadLen == 2
MaxInClose == 1

InIds == {2}
\* the frames the remote end sends: a name, two bytes of data, a close
InFrames == {<<NewStream, <<110>>>>, <<Receiver, <<7, 8>>>>, <<Close, <<>>>>}

InitInbound ==
    InitWith(TRUE, FALSE,
             [NoBudget EXCEPT !.peer = MaxInFrames, !.read = MaxInRead,
                              !.sclose = MaxInClose],
             NoBudget)

NextInbound ==
    \/ ServeStart("A")
    \/ handleOutgoingWrite("A")
    \/ \E id \in InIds, f \in InFrames : PeerSend("A", id, f[1], f[2])
    \/ ServeRead("A")
    \/ ServeDispatch("A")
    \/ ServeDelete("A")
    \/ receiveSend("A")
    \/ receiveClosed("A")
    \/ \E s \in known["A"], n \in 1..MaxInReadLen : ReadCall("A", "u1", s, n)
    \/ ReadFirst("A", "u1")
    \/ ReadReceive("A", "u1")
    \/ ReadClosed("A", "u1")
    \/ \E s \in known["A"] : CloseCall("A", "u2", s)
    \/ \E t \in {"u2", "srv"} : StreamCloseCheck("A", t)
    \/ \E t \in {"u2", "srv"} : StreamCloseSignal("A", t)
    \/ \E t \in {"u2", "srv"} : StreamCloseSend("A", t)
    \/ \E t \in {"u2", "srv"} : StreamCloseInbox("A", t)

SpecInbound == InitInbound /\ [][NextInbound]_vars

\* C2: when a Read called on a closed stream returns EOF, every byte that
\* was delivered to the stream before it was closed has been returned.
C2_ReadDrainsBeforeEOF ==
    \A t \in Users :
        LET r == usr["A"][t].ret
        IN  (r.op = "read" /\ r.late /\ r.err = "EOF")
               => Len(gh["A"].st[r.s].readOut) >= gh["A"].st[r.s].pre

\* C7: no two Stream objects of a multiplexer ever have the same id.
C7_IdsNeverReused ==
    \A i, j \in 1..Len(streams["A"]) :
        i # j => streams["A"][i].id # streams["A"][j].id


(***************************************************************************)
(* Specification SpecE2E: "A" and "B" are both served over one transport.  *)
(* A's user opens streams and writes on them; B's user reads the streams   *)
(* its handler was given, with buffers of different sizes.  Nothing is     *)
(* closed.                                                                 *)
(***************************************************************************)
MaxE2ENew == 2
MaxE2EWrite == 3
MaxE2ERead == 3
MaxE2ELen == 2

InitE2E ==
    InitWith(TRUE, FALSE,
             [NoBudget EXCEPT !.new = MaxE2ENew, !.write = MaxE2EWrite],
             [NoBudget EXCEPT !.read = MaxE2ERead])

NextE2E ==
    \/ \E m \in Sides : ServeStart(m)
    \/ handleOutgoingWrite("A")
    \/ NewNamedStreamCall("A", "u1", <<>>)
    \/ NewNamedStreamInsert("A", "u1")
    \/ NewNamedStreamSend("A", "u1")
    \/ \E s \in known["A"], len \in 1..MaxE2ELen : WriteCall("A", "u1", s, len)
    \/ WriteSend("A", "u1")
    \/ ServeRead("B")
    \/ ServeDispatch("B")
    \/ receiveSend("B")
    \/ \E s \in known["B"], n \in 1..MaxE2ELen : ReadCall("B", "u1", s, n)
    \/ ReadFirst("B", "u1")
    \/ ReadReceive("B", "u1")

SpecE2E == InitE2E /\ [][NextE2E]_vars

IsPrefix(p, s) == Len(p) <= Len(s) /\ p = Take(s, Len(p))

\* C4: what the Reads of a stream on B have returned, concatenated, is a
\* prefix of what the Writes on A's stream of that id were given, in order.
C4_ByteStreamFidelity ==
    \A r \in 1..Len(streams["B"]) :
        \E a \in 1..Len(streams["A"]) :
            /\ streams["A"][a].id = streams["B"][r].id
            /\ IsPrefix(gh["B"].st[r].readOut, gh["A"].st[a].wrote)

\* bytes of two streams were read, one Read leaving a residue in s.buf
C4_Witness ==
    \E r, q \in 1..Len(streams["B"]) :
        /\ r # q
        /\ streams["B"][r].buf # <<>>
        /\ gh["B"].st[r].readOut # <<>>
        /\ gh["B"].st[q].readOut # <<>>


(***************************************************************************)
(* Specification SpecProp: close propagation.  A's user opens a stream,    *)
(* writes one payload and, that Write having returned, closes the stream.  *)
(* B's handler task reads the stream and another B task writes on it.      *)
(* Every goroutine that can take a step eventually takes one.              *)
(***************************************************************************)
MaxPropRead == 2
MaxPropLen == 1

InitProp ==
    InitWith(TRUE, FALSE,
             [NoBudget EXCEPT !.new = 1, !.write = 1, !.sclose = 1],
             [NoBudget EXCEPT !.read = MaxPropRead, !.write = 1])

NextProp ==
    \/ \E m \in Sides : ServeStart(m)
    \/ \E m \in Sides : handleOutgoingWrite(m)
    \/ NewNamedStreamCall("A", "u1", <<>>)
    \/ NewNamedStreamInsert("A", "u1")
    \/ NewNamedStreamSend("A", "u1")
    \/ \E s \in known["A"] : WriteCall("A", "u1", s, MaxPropLen)
    \/ WriteSend("A", "u1")
    \/ \E s \in known["A"] : bud["A"].write = 0 /\ CloseCall("A", "u1", s)
    \/ \E m \in Sides, t \in {"u1", "srv"} : StreamCloseCheck(m, t)
    \/ \E m \in Sides, t \in {"u1", "srv"} : StreamCloseSignal(m, t)
    \/ \E m \in Sides, t \in {"u1", "srv"} : StreamCloseSend(m, t)
    \/ \E m \in Sides, t \in {"u1", "srv"} : StreamCloseInbox(m, t)
    \/ \E m \in Sides : ServeRead(m)
    \/ \E m \in Sides : ServeDispatch(m)
    \/ \E m \in Sides : receiveSend(m)
    \/ \E m \in Sides : receiveClosed(m)
    \/ ServeDelete("B")
    \/ \E s \in known["B"] : ReadCall("B", "u1", s, MaxPropLen)
    \/ ReadFirst("B", "u1")
    \/ ReadReceive("B", "u1")
    \/ ReadClosed("B", "u1")
    \/ \E s \in known["B"] : WriteCall("B", "u2", s, 1)
    \/ WriteSend("B", "u2")
    \/ WriteClosed("B", "u2")

SpecProp == InitProp /\ [][NextProp]_vars /\ WF_vars(NextProp)

\* the frames of a byte sequence, in order (a trailing partial frame left out)
RECURSIVE FramesOf(_)
FramesOf(bs) ==
    LET r == ReadFrame(bs, TRUE)
    IN  IF r.st = "frame"
        THEN <<[ch |-> r.ch, tag |-> r.tag, b |-> r.b]>>
                \o FramesOf(Drop(bs, r.used))
        ELSE <<>>

\* a Close frame for the id follows a data frame for it on m's wire
CloseFrameAfterData(m, id) ==
    LET fs == FramesOf(wire[m])
    IN  \E i, j \in 1..Len(fs) :
            /\ i < j
            /\ fs[i].ch = id /\ fs[i].tag = Initiator
            /\ fs[j].ch = id /\ IsCloseTag(fs[j].tag)

\* C3: once A's Close of the stream it wrote on has returned, a Close frame
\* for the stream is eventually on the wire after the data frame, and B's
\* stream of that id is eventually closed.
C3_ClosePropagates ==
    (Len(streams["A"]) >= 1 /\ gh["A"].st[1].closeRet)
       ~> (/\ CloseFrameAfterData("A", streams["A"][1].id)
           /\ \E r \in 1..Len(streams["B"]) :
                 /\ streams["B"][r].id = streams["A"][1].id
                 /\ streams["B"][r].closed)


(***************************************************************************)
(* Specification SpecClose: multiplexer "A" is served and the remote end   *)
(* sends it frames when it likes; u1 closes the multiplexer while u2 reads *)
(* and writes on the streams the handler was given.  Every goroutine of A  *)
(* that can take a step eventually takes one; the remote end need not.     *)
(***************************************************************************)
MaxCloseFrames == 2
MaxCloseRead == 1
MaxCloseWrite == 1

InitClose ==
    InitWith(TRUE, FALSE,
             [NoBudget EXCEPT !.peer = MaxCloseFrames, !.read = MaxCloseRead,
                              !.write = MaxCloseWrite, !.mclose = 1],
             NoBudget)

ProgramClose ==
    \/ ServeStart("A")
    \/ handleOutgoingWrite("A")
    \/ handleOutgoingClosed("A")
    \/ ServeRead("A")
    \/ ServeDispatch("A")
    \/ ServeDelete("A")
    \/ receiveSend("A")
    \/ receiveClosed("A")
    \/ MultiplexCloseCall("A", "u1")
    \/ MultiplexCloseSignal("A", "u1")
    \/ MultiplexCloseLock("A", "u1")
    \/ MultiplexCloseRange("A", "u1")
    \/ \E t \in {"u1", "srv"} : StreamCloseCheck("A", t)
    \/ \E t \in {"u1", "srv"} : StreamCloseSignal("A", t)
    \/ \E t \in {"u1", "srv"} : StreamCloseSend("A", t)
    \/ \E t \in {"u1", "srv"} : StreamCloseInbox("A", t)
    \/ \E s \in known["A"] : ReadCall("A", "u2", s, 1)
    \/ ReadFirst("A", "u2")
    \/ ReadReceive("A", "u2")
    \/ ReadClosed("A", "u2")
    \/ \E s \in known["A"] : WriteCall("A", "u2", s, 1)
    \/ WriteSend("A", "u2")
    \/ WriteClosed("A", "u2")

NextClose ==
    \/ ProgramClose
    \/ \E id \in InIds, f \in InFrames : PeerSend("A", id, f[1], f[2])

SpecClose == InitClose /\ [][NextClose]_vars /\ WF_vars(ProgramClose)

\* the goroutine is inside Stream.Read or Stream.Write
InReadOrWrite(m, t) == usr[m][t].pc \in {"read", "read_loop", "write"}

\* C8: once Multiplex.Close has been called, every Read and Write that is
\* in progress on a stream of the multiplexer eventually returns.
C8_CallsReturnAfterClose ==
    \A t \in Users :
        (mp["A"].closed /\ InReadOrWrite("A", t)) ~> ~InReadOrWrite("A", t)


(***************************************************************************)
(* Specification SpecTag: multiplexer "A" is served; the remote end sends  *)
(* frames carrying every tag value from 0 to 5 for one stream id, and u1   *)
(* closes the streams the handler was given, so that A emits Close frames. *)
(***************************************************************************)
MaxTagFrames == 2

\* the tag values the remote end uses: header & 7 of an inbound frame
InTags == 0..5

InitTag ==
    InitWith(TRUE, FALSE,
             [NoBudget EXCEPT !.peer = MaxTagFrames, !.sclose = 1],
             NoBudget)

NextTag ==
    \/ ServeStart("A")
    \/ handleOutgoingWrite("A")
    \/ \E id \in InIds, tag \in InTags : PeerSend("A", id, tag, <<9>>)
    \/ ServeRead("A")
    \/ ServeDispatch("A")
    \/ ServeDelete("A")
    \/ receiveSend("A")
    \/ receiveClosed("A")
    \/ \E s \in known["A"] : CloseCall("A", "u1", s)
    \/ \E t \in {"u1", "srv"} : StreamCloseCheck("A", t)
    \/ \E t \in {"u1", "srv"} : StreamCloseSignal("A", t)
    \/ \E t \in {"u1", "srv"} : StreamCloseSend("A", t)
    \/ \E t \in {"u1", "srv"} : StreamCloseInbox("A", t)

SpecTag == InitTag /\ [][NextTag]_vars

\* C11: the Close tag is 5 on the wire: every frame Stream.Close emits (the
\* only frames A writes here) has header (id << 3) | 5 and an empty payload,
\* and the dispatch loop closes the stream exactly when header & 7 = 5,
\* delivering the payload of every other tag but NewStream as data.
C11_CloseTagIsFive ==
    /\ \A i \in 1..Len(FramesOf(wire["A"])) :
          /\ FramesOf(wire["A"])[i].tag = 5
          /\ FramesOf(wire["A"])[i].b = <<>>
    /\ srv["A"].pc = "delete" => srv["A"].tag = 5
    /\ srv["A"].pc = "receive" => srv["A"].tag \notin {0, 5}


(***************************************************************************)
(* Specification SpecEOF: multiplexer "A" is served; the remote end writes *)
(* bytes one at a time and ends the transport at any point, on a frame     *)
(* boundary or inside a frame.  Serve returns through shutdown.            *)
(***************************************************************************)
MaxEOFBytes == 4

\* the bytes the remote end writes: 17 is the header of a data frame for
\* id 2, 145 the same with the continuation bit set, 2 and 0 are lengths
\* (or headers of id 0, or payload)
EOFBytes == {17, 145, 2, 0}

\* the remote end writes bytes that need not be a whole frame
PeerWrite(m, bs) ==
    /\ ~eof[m]
    /\ bud[m].peer > 0
    /\ bud' = [bud EXCEPT ![m].peer = @ - 1]
    /\ wire' = [wire EXCEPT ![Peer(m)] = @ \o bs]
    /\ UNCHANGED <<mp, streams, ser, srv, usr, cl, rpos, eof, panicked,
                   known, gh>>

InitEOF ==
    InitWith(TRUE, FALSE, [NoBudget EXCEPT !.peer = MaxEOFBytes], NoBudget)

NextEOF ==
    \/ ServeStart("A")
    \/ handleOutgoingWrite("A")
    \/ \E b \in EOFBytes : PeerWrite("A", <<b>>)
    \/ PeerEOF("A")
    \/ ServeRead("A")
    \/ ServeDispatch("A")
    \/ receiveSend("A")
    \/ shutdownLock("A")
    \/ shutdownRange("A")
    \/ StreamCloseCheck("A", "srv")
    \/ StreamCloseSignal("A", "srv")
    \/ StreamCloseSend("A", "srv")
    \/ StreamCloseInbox("A", "srv")

SpecEOF == InitEOF /\ [][NextEOF]_vars

\* Serve has left its loop (it runs shutdown, then returns srv.ret)
ServeReturning(m) == srv[m].pc \in {"sd_lock", "sd_range", "done"}

\* C12: Serve returns nil on end of input only when every byte of the
\* transport was consumed as part of a whole frame; when the input ends
\* inside a frame it returns a non-nil error.
C12_NilOnlyOnFrameBoundary ==
    ServeReturning("A") =>
        (srv["A"].ret = "nil" <=> Unread("A") = <<>>)


(***************************************************************************)
(* Specification SpecStop: shutdown.  Multiplexer "A" is served; u1 then   *)
(* closes the multiplexer and u2 closes streams the handler was given; the *)
(* remote end sends frames and ends the transport when it likes, or never. *)
(* Every goroutine of A that can take a step eventually takes one.         *)
(***************************************************************************)
MaxStopFrames == 2
MaxStopClose == 1

InitStop ==
    InitWith(TRUE, FALSE,
             [NoBudget EXCEPT !.peer = MaxStopFrames, !.mclose = 1,
                              !.sclose = MaxStopClose],
             NoBudget)

ProgramStop ==
    \/ ServeStart("A")
    \/ handleOutgoingWrite("A")
    \/ handleOutgoingClosed("A")
    \/ ServeRead("A")
    \/ ServeDispatch("A")
    \/ ServeDelete("A")
    \/ receiveSend("A")
    \/ receiveClosed("A")
    \/ shutdownLock("A")
    \/ shutdownRange("A")
    \/ srv["A"].pc # "off" /\ MultiplexCloseCall("A", "u1")
    \/ MultiplexCloseSignal("A", "u1")
    \/ MultiplexCloseLock("A", "u1")
    \/ MultiplexCloseRange("A", "u1")
    \/ \E s \in known["A"] : CloseCall("A", "u2", s)
    \/ \E t \in Tasks : StreamCloseCheck("A", t)
    \/ \E t \in Tasks : StreamCloseSignal("A", t)
    \/ \E t \in Tasks : StreamCloseSend("A", t)
    \/ \E t \in Tasks : StreamCloseInbox("A", t)

NextStop ==
    \/ ProgramStop
    \/ \E id \in InIds, f \in InFrames : PeerSend("A", id, f[1], f[2])
    \/ PeerEOF("A")

SpecStop == InitStop /\ [][NextStop]_vars /\ WF_vars(ProgramStop)

\* C13: once Multiplex.Close has returned, or Serve has run shutdown and
\* returned, con.Close() has been called on the transport.
C13_TransportClosedOnShutdown ==
    (gh["A"].mcRet \/ srv["A"].pc = "done") => gh["A"].conClosed


\* C14: once Multiplex.Close has been called on a served multiplexer (and
\* the process has not panicked), handleOutgoing and Serve both eventually
\* return, whether or not the remote end sends or ends the transport.
C14_LoopsReturnAfterClose ==
    (mp["A"].closed /\ srv["A"].pc # "off")
       ~> (panicked["A"] \/ (ser["A"].pc = "done" /\ srv["A"].pc = "done"))

\* C15: no goroutine holds ch_lock while it is inside a call of
\* Stream.Close (whose try-send is an outbound-channel send), nor while it
\* reads the transport or delivers to a stream.
C15_LockDiscipline ==
    /\ \A t \in Tasks : mp["A"].ch_lock = t => NotClosing("A", t)
    /\ mp["A"].ch_lock = "srv" => srv["A"].pc \notin {"read", "receive"}
    /\ \A t \in Users :
          mp["A"].ch_lock = t => usr["A"][t].pc \notin {"ns_send", "write"}


\* C16: Stream.receive on a stream whose closed signal has fired and whose
\* inbox channel Stream.Close has closed returns without enqueuing and
\* without failing: the process never dies of a send on the closed inbox.
C16_ReceiveOnClosedIsNoOp ==
    gh["A"].panic # "send on closed channel"


\* what a step of the dispatch loop out of line 272 must do with its frame
DispatchedRight(m) ==
    LET ch  == srv[m].ch
        tag == srv[m].tag
        b   == srv[m].b
        n   == Len(streams[m])
    IN  IF MapHas(mp[m].channels, ch)
        THEN /\ streams'[m] = streams[m]
             /\ mp'[m].channels = mp[m].channels
             /\ gh'[m].spawned = gh[m].spawned
        ELSE /\ Len(streams'[m]) = n + 1
             /\ SubSeq(streams'[m], 1, n) = streams[m]
             /\ streams'[m][n + 1] =
                   [id |-> ch, name |-> IF tag = 0 THEN b ELSE <<>>,
                    header |-> ch * 8 + 1, closed |-> FALSE,
                    data_in |-> <<>>, in_closed |-> FALSE, buf |-> <<>>]
             /\ mp'[m].channels = mp[m].channels \cup {<<ch, n + 1>>}
             /\ gh'[m].spawned = Append(gh[m].spawned, n + 1)
             /\ tag = 0 => srv'[m].pc = "read"
             /\ (tag # 0 /\ ~IsCloseTag(tag)) =>
                   /\ srv'[m].pc = "receive"
                   /\ srv'[m].msch = n + 1
                   /\ srv'[m].b = b
             /\ IsCloseTag(tag) =>
                   /\ srv'[m].pc = "delete"
                   /\ cl'[m]["srv"] = [pc |-> "check", s |-> n + 1]

\* C17: a frame for an id that is not in the map makes one remotely
\* initiated stream (header (id << 3) | 1, empty inbox), inserts it and
\* spawns the handler once; the payload of a NewStream frame becomes the
\* name and is not delivered, any other frame leaves the name empty and is
\* then delivered or closes the stream; a frame for an id in the map makes
\* no stream and spawns nothing.
C17_DispatchUnknownId ==
    [][(srv["A"].pc = "dispatch" /\ srv'["A"].pc # "dispatch")
          => DispatchedRight("A")]_vars

\* a NewStream frame made a stream named by its payload, and the data frame
\* that followed was delivered to it without a second handler
C17_Witness ==
    /\ Len(gh["A"].spawned) = 1
    /\ Len(streams["A"]) = 1
    /\ streams["A"][1].name = <<9>>
    /\ streams["A"][1].data_in = << <<9>> >>


(***************************************************************************)
(* Specification SpecOrder: multiplexer "A" is served; u1 opens streams,   *)
(* writes on them and closes them, while u2 closes the multiplexer.        *)
(***************************************************************************)
MaxOrderNew == 2
MaxOrderWrite == 1
MaxOrderClose == 1

InitOrder ==
    InitWith(TRUE, FALSE,
             [NoBudget EXCEPT !.new = MaxOrderNew, !.write = MaxOrderWrite,
                              !.sclose = MaxOrderClose, !.mclose = 1],
             NoBudget)

NextOrder ==
    \/ ServeStart("A")
    \/ handleOutgoingWrite("A")
    \/ handleOutgoingClosed("A")
    \/ \E name \in Names : NewNamedStreamCall("A", "u1", name)
    \/ NewNamedStreamInsert("A", "u1")
    \/ NewNamedStreamSend("A", "u1")
    \/ \E s \in known["A"] : WriteCall("A", "u1", s, 1)
    \/ WriteSend("A", "u1")
    \/ WriteClosed("A", "u1")
    \/ \E s \in known["A"] : CloseCall("A", "u1", s)
    \/ \E t \in Users : StreamCloseCheck("A", t)
    \/ \E t \in Users : StreamCloseSignal("A", t)
    \/ \E t \in Users : StreamCloseSend("A", t)
    \/ \E t \in Users : StreamCloseInbox("A", t)
    \/ MultiplexCloseCall("A", "u2")
    \/ MultiplexCloseSignal("A", "u2")
    \/ MultiplexCloseLock("A", "u2")
    \/ MultiplexCloseRange("A", "u2")

SpecOrder == InitOrder /\ [][NextOrder]_vars

\* the frames m has put on the wire or handed to its serializer, in order
FramesSent(m) ==
    FramesOf(wire[m]) \o
        (IF ser[m].pc \in {"hdr", "len", "data"}
         THEN <<[ch |-> ser[m].msg.header \div 8,
                 tag |-> ser[m].msg.header % 8, b |-> ser[m].msg.data]>>
         ELSE <<>>)

\* the first frame sent for the id is its NewStream frame, carrying the name
NewStreamFrameFirst(m, s) ==
    LET fs == FramesSent(m)
        id == streams[m][s].id
    IN  \A j \in 1..Len(fs) :
            fs[j].ch = id =>
                \E i \in 1..j :
                    /\ fs[i].ch = id
                    /\ fs[i].tag = NewStream
                    /\ fs[i].b = streams[m][s].name

MaxBPFrames == 10
MaxBPRead == 1
MaxBPClose == 1

BPIds == {2, 4}

\* the stream's inbox channel holds as many payloads as it has room for
InboxFull(m, s) == Len(streams[m][s].data_in) = InboxCap

\* the remote end writes a frame once Serve has consumed the one before (a
\* transport without buffering, such as net.Pipe)
TransportIdle(m) == Unread(m) = <<>>

InitBackPressure ==
    InitWith(TRUE, FALSE,
             [NoBudget EXCEPT !.peer = MaxBPFrames, !.read = MaxBPRead,
                              !.sclose = MaxBPClose],
             NoBudget)

NextBackPressure ==
    \/ ServeStart("A")
    \/ handleOutgoingWrite("A")
    \/ \E id \in BPIds : TransportIdle("A") /\ PeerSend("A", id, Receiver, <<7>>)
    \/ ServeRead("A")
    \/ ServeDispatch("A")
    \/ receiveSend("A")
    \/ receiveClosed("A")
    \/ \E s \in known["A"] : InboxFull("A", s) /\ ReadCall("A", "u1", s, 1)
    \/ ReadFirst("A", "u1")
    \/ ReadReceive("A", "u1")
    \/ ReadClosed("A", "u1")
    \/ \E s \in known["A"] : InboxFull("A", s) /\ CloseCall("A", "u2", s)
    \/ StreamCloseCheck("A", "u2")
    \/ StreamCloseSignal("A", "u2")
    \/ StreamCloseSend("A", "u2")
    \/ StreamCloseInbox("A", "u2")

SpecBackPressure == InitBackPressure /\ [][NextBackPressure]_vars


\* the dispatch loop is inside receive for an open stream whose inbox holds
\* 8 payloads
BlockedInReceive(m) ==
    /\ srv[m].pc = "receive"
    /\ Len(streams[m][srv[m].msch].data_in) = 8
    /\ ~streams[m][srv[m].msch].closed

\* C19: an inbox never holds more than 8 payloads; while the dispatch loop
\* is inside receive for an open stream whose inbox holds 8, no step reads
\* a frame from the transport or delivers a payload to any stream, and the
\* loop stays there; it does not hold ch_lock inside receive.
C19_BackPressure ==
    /\ [](\A s \in 1..Len(streams["A"]) : Len(streams["A"][s].data_in) <= 8)
    /\ [](srv["A"].pc = "receive" => mp["A"].ch_lock # "srv")
    /\ [][BlockedInReceive("A") =>
             /\ rpos'["A"] = rpos["A"]
             /\ srv'["A"] = srv["A"]
             /\ \A s \in 1..Len(streams["A"]) :
                   gh'["A"].st[s].delivered = gh["A"].st[s].delivered]_vars

\* the loop is blocked on a full inbox while a frame for another stream
\* waits unread on the transport
C19_Witness ==
    /\ BlockedInReceive("A")
    /\ ReadFrame(Unread("A"), FALSE).st = "frame"
    /\ ReadFrame(Unread("A"), FALSE).ch # streams["A"][srv["A"].msch].id


\* C20: whatever the interleaving of the callers of Stream.Close on one
\* stream (a user, the dispatch loop on a Close frame, Multiplex.Close,
\* shutdown), no goroutine closes s.closed or s.data_in a second time: the
\* process never dies of a close of a closed channel.
C20_CloseOnce ==
    gh["A"].panic # "close of closed channel"

=============================================================================
